---- MODULE Spec2Model ----
(***************************************************************************)
(* Project_2 of LaviSchlyter/Deep_learning_project: the loss functions of  *)
(* loss.py (LossMSE, LossBCE and their gradient functions) and the         *)
(* training driver of util.py (Data.generate, normalize, train_model,      *)
(* evaluate_model, evaluate_error).                                        *)
(*                                                                         *)
(* core.py (HyperCube, the layers, the optimizer) is imported by both      *)
(* files but is not part of the sources at hand; HyperCube.backward, the   *)
(* linear layer and the optimizer are modelled from the specification.     *)
(*                                                                         *)
(* Tensor elements are torch float32 values.  They are modelled as         *)
(* extended rationals: a finite number is (n/d) * 10^(12*e) with n/d in    *)
(* lowest terms, next to +inf, -inf and nan with their IEEE-754 rules.     *)
(* Arithmetic on finite numbers of the same decade block e is exact        *)
(* (rounding in the last place is not modelled); a sum of two numbers      *)
(* of different blocks returns the larger one, as float32 addition does    *)
(* when the operands differ by more than its 24-bit significand.           *)
(***************************************************************************)
EXTENDS Integers, Sequences, FiniteSets, TLC

-----------------------------------------------------------------------------
(* float32 values *)

Abs(i) == IF i < 0 THEN -i ELSE i

RECURSIVE GCD(_, _)
GCD(a, b) == IF b = 0 THEN a ELSE GCD(b, a % b)

NaN == [k |-> "nan", n |-> 0, d |-> 1, e |-> 0]

PInf == [k |-> "pinf", n |-> 0, d |-> 1, e |-> 0]

NInf == [k |-> "ninf", n |-> 0, d |-> 1, e |-> 0]

Zero == [k |-> "fin", n |-> 0, d |-> 1, e |-> 0]

\* the finite number (n/d) * 10^(12*e), d # 0, in canonical form
Fin(n, d, e) ==
    LET g == GCD(Abs(n), Abs(d))
        s == IF d < 0 THEN -1 ELSE 1
    IN  IF n = 0 THEN Zero
        ELSE [k |-> "fin", n |-> (s * n) \div g, d |-> Abs(d) \div g, e |-> e]

Q(n, d) == Fin(n, d, 0)

One == Q(1, 1)

IsFin(a) == a.k = "fin"

IsNaN(a) == a.k = "nan"

IsInf(a) == a.k \in {"pinf", "ninf"}

\* -1, 0 or 1; not meaningful for nan
Sign(a) ==
    CASE a.k = "pinf" -> 1
      [] a.k = "ninf" -> -1
      [] a.k = "nan" -> 0
      [] a.k = "fin" -> IF a.n > 0 THEN 1 ELSE IF a.n < 0 THEN -1 ELSE 0

SignedInf(s) == IF s > 0 THEN PInf ELSE IF s < 0 THEN NInf ELSE NaN

Neg(a) ==
    CASE a.k = "nan" -> NaN
      [] a.k = "pinf" -> NInf
      [] a.k = "ninf" -> PInf
      [] a.k = "fin" -> Fin(-a.n, a.d, a.e)

Add(a, b) ==
    CASE IsNaN(a) \/ IsNaN(b) -> NaN
      [] IsInf(a) /\ IsInf(b) -> IF a = b THEN a ELSE NaN
      [] IsInf(a) /\ IsFin(b) -> a
      [] IsFin(a) /\ IsInf(b) -> b
      [] OTHER ->
            IF a.n = 0 THEN b
            ELSE IF b.n = 0 THEN a
            ELSE IF a.e = b.e THEN Fin(a.n * b.d + b.n * a.d, a.d * b.d, a.e)
            ELSE IF a.e > b.e THEN a ELSE b

Sub(a, b) == Add(a, Neg(b))

Mul(a, b) ==
    CASE IsNaN(a) \/ IsNaN(b) -> NaN
      [] IsInf(a) \/ IsInf(b) -> SignedInf(Sign(a) * Sign(b))
      [] OTHER -> Fin(a.n * b.n, a.d * b.d, a.e + b.e)

Div(a, b) ==
    CASE IsNaN(a) \/ IsNaN(b) -> NaN
      [] IsInf(a) /\ IsInf(b) -> NaN
      [] IsInf(a) -> IF Sign(b) < 0 THEN Neg(a) ELSE a
      [] IsInf(b) -> Zero
      [] b.n = 0 -> SignedInf(Sign(a))
      [] OTHER -> Fin(a.n * b.d, a.d * b.n, a.e - b.e)

\* a < b; every comparison with nan is false
Lt(a, b) ==
    CASE IsNaN(a) \/ IsNaN(b) -> FALSE
      [] a.k = "pinf" \/ b.k = "ninf" -> FALSE
      [] a.k = "ninf" \/ b.k = "pinf" -> TRUE
      [] OTHER ->
            IF Sign(a) # Sign(b) THEN Sign(a) < Sign(b)
            ELSE IF Sign(a) = 0 THEN FALSE
            ELSE IF a.e = b.e THEN a.n * b.d < b.n * a.d
            ELSE IF Sign(a) > 0 THEN a.e < b.e ELSE a.e > b.e

Le(a, b) == ~IsNaN(a) /\ ~IsNaN(b) /\ ~Lt(b, a)

\* torch.maximum: nan if either operand is nan
Maximum(a, b) ==
    IF IsNaN(a) \/ IsNaN(b) THEN NaN ELSE IF Lt(a, b) THEN b ELSE a

\* Tensor.clamp(lo, float("inf"))
ClampMin(a, lo) == IF IsNaN(a) THEN NaN ELSE IF Lt(a, lo) THEN lo ELSE a

AbsNum(a) == IF Sign(a) < 0 THEN Neg(a) ELSE a

\* 2^p for p >= 0
RECURSIVE Pow2(_)
Pow2(p) == IF p = 0 THEN 1 ELSE 2 * Pow2(p - 1)

\* the integer p with 2^p <= n/d < 2^(p+1), for n, d > 0
RECURSIVE FloorLog2(_, _)
FloorLog2(n, d) ==
    IF n < d THEN FloorLog2(2 * n, d) - 1
    ELSE IF n >= 2 * d THEN FloorLog2(n, 2 * d) + 1
    ELSE 0

\* ln(2) and ln(10^12), in thousandths
Ln2Milli == 693

LnBlockMilli == 27631

\* Tensor.log() on one element, to three decimals: log2 is interpolated
\* linearly between the powers of two, where it is exact
Log(a) ==
    CASE IsNaN(a) -> NaN
      [] a.k = "pinf" -> PInf
      [] a.k = "ninf" -> NaN
      [] a.n = 0 -> NInf
      [] a.n < 0 -> NaN
      [] OTHER ->
            LET p == FloorLog2(a.n, a.d)
                \* n/d / 2^p - 1 = fn/fd, in [0, 1)
                fn == IF p >= 0 THEN a.n - a.d * Pow2(p) ELSE a.n * Pow2(-p) - a.d
                fd == IF p >= 0 THEN a.d * Pow2(p) ELSE a.d
                milli == Ln2Milli * p + ((Ln2Milli * fn) \div fd) + LnBlockMilli * a.e
            IN  Q(milli, 1000)

-----------------------------------------------------------------------------
(* tensors: rank 2 of shape (N, K) as N rows of K elements; rank 1 of      *)
(* shape (K,) as one row                                                   *)

Tensor(rank, data) == [rank |-> rank, data |-> data]

NRows(t) == Len(t.data)

NCols(t) == IF Len(t.data) = 0 THEN 0 ELSE Len(t.data[1])

\* number of elements
Numel(t) == NRows(t) * NCols(t)

\* the given row repeated n times: a (K,) tensor broadcast against (n, K)
BroadcastRows(v, n) == Tensor(2, [i \in 1..n |-> v.data[1]])

Map1(F(_), t) ==
    Tensor(t.rank, [i \in 1..NRows(t) |-> [j \in 1..NCols(t) |-> F(t.data[i][j])]])

Map2(F(_, _), a, b) ==
    Tensor(a.rank,
           [i \in 1..NRows(a) |-> [j \in 1..NCols(a) |-> F(a.data[i][j], b.data[i][j])]])

TAdd(a, b) == Map2(Add, a, b)

TSub(a, b) == Map2(Sub, a, b)

TMul(a, b) == Map2(Mul, a, b)

TDiv(a, b) == Map2(Div, a, b)

TNeg(a) == Map1(Neg, a)

TLog(a) == Map1(Log, a)

TMaximum(a, b) == Map2(Maximum, a, b)

\* scalar * tensor and scalar - tensor
TScale(c, a) == Tensor(a.rank, [i \in 1..NRows(a) |-> [j \in 1..NCols(a) |-> Mul(c, a.data[i][j])]])

TRSub(c, a) == Tensor(a.rank, [i \in 1..NRows(a) |-> [j \in 1..NCols(a) |-> Sub(c, a.data[i][j])]])

TClampMin(a, lo) ==
    Tensor(a.rank, [i \in 1..NRows(a) |-> [j \in 1..NCols(a) |-> ClampMin(a.data[i][j], lo)]])

\* (N, K) * (K,): the rank-1 operand is broadcast over the rows
TMulB(a, v) == TMul(a, BroadcastRows(v, NRows(a)))

ZerosLike(t) == Tensor(t.rank, [i \in 1..NRows(t) |-> [j \in 1..NCols(t) |-> Zero]])

ones_like(t) == Tensor(t.rank, [i \in 1..NRows(t) |-> [j \in 1..NCols(t) |-> One]])

\* sum of column j over rows 1..i, added in row order
RECURSIVE ColSum(_, _, _)
ColSum(t, j, i) == IF i = 0 THEN Zero ELSE Add(ColSum(t, j, i - 1), t.data[i][j])

\* Tensor.sum(dim=0) of an (N, K) tensor: the (K,) tensor of column sums
SumDim0(t) == Tensor(1, << [j \in 1..NCols(t) |-> ColSum(t, j, NRows(t))] >>)

\* sum over k = 1..n of a[i][k] * b[k][j]
RECURSIVE Dot(_, _, _, _, _)
Dot(a, b, i, j, n) ==
    IF n = 0 THEN Zero ELSE Add(Dot(a, b, i, j, n - 1), Mul(a.data[i][n], b.data[n][j]))

\* (N, F) @ (F, K)
MatMul(a, b) ==
    Tensor(2, [i \in 1..NRows(a) |-> [j \in 1..NCols(b) |-> Dot(a, b, i, j, NCols(a))]])

Transpose(a) ==
    Tensor(2, [j \in 1..NCols(a) |-> [i \in 1..NRows(a) |-> a.data[i][j]]])

\* (N, K) + (K,): the rank-1 operand is broadcast over the rows
TAddB(a, v) == TAdd(a, BroadcastRows(v, NRows(a)))

\* torch.all(t >= lo) and torch.all(t <= hi)
AllInRange(t, lo, hi) ==
    \A i \in 1..NRows(t) : \A j \in 1..NCols(t) :
        Le(lo, t.data[i][j]) /\ Le(t.data[i][j], hi)

AllElems(t, P(_)) == \A i \in 1..NRows(t) : \A j \in 1..NCols(t) : P(t.data[i][j])

-----------------------------------------------------------------------------
(* loss.py *)

\* mutant: the sum of squares without the factor 1 / 2
LossMSEValue_NoHalf(x, t) ==
    SumDim0(TMul(TSub(x, t), TSub(x, t)))

\* mutant: the mean over the batch instead of the sum
LossMSEValue_Mean(x, t) ==
    TScale(Q(1, 2 * NRows(x)), SumDim0(TMul(TSub(x, t), TSub(x, t))))

\* the value of the HyperCube LossMSE.__call__ returns
LossMSEValue(x, t) ==
    TScale(Q(1, 2), SumDim0(TMul(TSub(x, t), TSub(x, t))))

\* mutant: output_grad is not applied
LossMSEInputGrad_NoSeed(x, t, output_grad) == TSub(x, t)

\* input_grad of LossMSEGradFN.backward
LossMSEInputGrad(x, t, output_grad) == TMulB(TSub(x, t), output_grad)

\* mutant: the target receives the same gradient as the input
LossMSETargetGrad_NotNegated(x, t, output_grad) ==
    TMulB(TSub(x, t), output_grad)

\* what LossMSEGradFN.backward hands to self.target.backward
LossMSETargetGrad(x, t, output_grad) == TNeg(LossMSEInputGrad(x, t, output_grad))

\* mutant: only the upper end of the range is asserted
LossBCEAssert_UpperOnly(x) ==
    \A i \in 1..NRows(x) : \A j \in 1..NCols(x) : Le(x.data[i][j], One)

\* the assertion of LossBCE.__call__
LossBCEAssert(x) == AllInRange(x, Zero, One)

LogClamp == Q(-100, 1)

\* the value of the HyperCube LossBCE.__call__ returns
LossBCEValue(x, t) ==
    TNeg(SumDim0(TAdd(TMul(t, TClampMin(TLog(x), LogClamp)),
                      TMul(TRSub(One, t), TClampMin(TLog(TRSub(One, x)), LogClamp)))))

\* 1e-12
EpsValue == Fin(1, 1, -1)

\* mutant: the denominator is not guarded by eps
LossBCEInputGrad_NoEps(x, y, output_grad) ==
    TMulB(TDiv(TSub(x, y), TMul(TRSub(One, x), x)), output_grad)

\* mutant: the denominator is capped at eps
LossBCEInputGrad_Minimum(x, y, output_grad) ==
    LET eps == TScale(EpsValue, ones_like(x))
        den == Map2(LAMBDA a, b : IF Lt(a, b) THEN a ELSE b, TMul(TRSub(One, x), x), eps)
    IN  TMulB(TDiv(TSub(x, y), den), output_grad)

\* input_grad of LossBCEGradFN.backward
LossBCEInputGrad(x, y, output_grad) ==
    LET eps == TScale(EpsValue, ones_like(x))
    IN  TMulB(TDiv(TSub(x, y), TMaximum(TMul(TRSub(One, x), x), eps)), output_grad)

\* what LossBCEGradFN.backward hands to self.target.backward
LossBCETargetGrad(x, y, output_grad) ==
    TMulB(TAdd(TNeg(TLog(x)), TLog(TRSub(One, x))), output_grad)

-----------------------------------------------------------------------------
(* HyperCube objects live in a heap: heap[id] is the object with identity  *)
(* id; a gradient function holds the ids of the HyperCubes it captured     *)

VARIABLES heap, pc, loss_func,
          \* the loss functions called directly
          loss, seeds, heap0,
          \* run_experiment and train_model
          data, params, lr, epoch, frame, plot_data, ops, reached,
          \* the Data object of Project_1
          self

lossVars == << loss, seeds, heap0 >>

trainVars == << data, params, lr, epoch, frame, plot_data, ops, reached >>

vars == << heap, pc, loss_func, lossVars, trainVars, self >>

NoGradFn == [type |-> "None", args |-> << >>]

\* HyperCube(value, grad_fn=...): grad starts as zero
HyperCube(value, grad_fn) ==
    [value |-> value, grad |-> ZerosLike(value), grad_fn |-> grad_fn]

RECURSIVE HyperCube_backward(_, _, _)
RECURSIVE GradFN_backward(_, _, _)

\* LossMSEGradFN.backward: the heap after both recursive calls
LossMSEGradFN_backward(h, fn, output_grad) ==
    LET input_ == fn.args[1]
        target == fn.args[2]
        h1 == HyperCube_backward(h, input_,
                  LossMSEInputGrad(h[input_].value, h[target].value, output_grad))
    IN  HyperCube_backward(h1, target,
                  LossMSETargetGrad(h[input_].value, h[target].value, output_grad))

\* LossBCEGradFN.backward
LossBCEGradFN_backward(h, fn, output_grad) ==
    LET input_ == fn.args[1]
        target == fn.args[2]
        h1 == HyperCube_backward(h, input_,
                  LossBCEInputGrad(h[input_].value, h[target].value, output_grad))
    IN  HyperCube_backward(h1, target,
                  LossBCETargetGrad(h[input_].value, h[target].value, output_grad))

\* the linear layer's gradient function: weight, bias and input receive
\* x^T @ g, the column sums of g, and g @ w^T
LinearGradFN_backward(h, fn, output_grad) ==
    LET input_ == fn.args[1]
        weight == fn.args[2]
        bias == fn.args[3]
        h1 == HyperCube_backward(h, weight,
                  MatMul(Transpose(h[input_].value), output_grad))
        h2 == HyperCube_backward(h1, bias, SumDim0(output_grad))
    IN  HyperCube_backward(h2, input_,
                  MatMul(output_grad, Transpose(h[weight].value)))

GradFN_backward(h, fn, output_grad) ==
    CASE fn.type = "LossMSEGradFN" -> LossMSEGradFN_backward(h, fn, output_grad)
      [] fn.type = "LossBCEGradFN" -> LossBCEGradFN_backward(h, fn, output_grad)
      [] fn.type = "LinearGradFN" -> LinearGradFN_backward(h, fn, output_grad)
      [] fn.type = "None" -> h

\* HyperCube.backward(seed): grad += seed, then the gradient function, if any
HyperCube_backward(h, id, seed) ==
    GradFN_backward([h EXCEPT ![id].grad = TAdd(@, seed)], h[id].grad_fn, seed)

\* mutant: the difference is formed in place in input_.value
LossMSE_call_InPlace(h, input_, target) ==
    Append([h EXCEPT ![input_].value = TSub(@, h[target].value)],
           HyperCube(LossMSEValue(h[input_].value, h[target].value),
                     [type |-> "LossMSEGradFN", args |-> << input_, target >>]))

\* LossMSE.__call__: the heap with the returned HyperCube appended
LossMSE_call(h, input_, target) ==
    Append(h, HyperCube(LossMSEValue(h[input_].value, h[target].value),
                        [type |-> "LossMSEGradFN", args |-> << input_, target >>]))

\* LossBCE.__call__ when its assertion holds
LossBCE_call(h, input_, target) ==
    Append(h, HyperCube(LossBCEValue(h[input_].value, h[target].value),
                        [type |-> "LossBCEGradFN", args |-> << input_, target >>]))

\* the linear layer's forward pass: the heap with input @ weight + bias appended
Linear_forward(h, weight, bias, input_) ==
    Append(h, HyperCube(TAddB(MatMul(h[input_].value, h[weight].value), h[bias].value),
                        [type |-> "LinearGradFN", args |-> << input_, weight, bias >>]))

\* the ids of the HyperCubes a backward pass from id passes through
RECURSIVE Reached(_, _)
Reached(h, id) ==
    {id} \cup UNION { Reached(h, h[id].grad_fn.args[k]) : k \in 1..Len(h[id].grad_fn.args) }

\* no Data object, no locals of train_model
NoData == [train_x |-> 0, train_y |-> 0, test_x |-> 0, test_y |-> 0]

NoFrame == [e |-> 0, y_train |-> 0, cost_train |-> 0, error_train |-> Zero,
            y_test |-> 0, cost_test |-> 0, error_test |-> Zero]

\* no Data object of Project_1
NoSelf == [train_size |-> 0, train_x |-> << >>, train_y |-> << >>,
           train_y_float |-> << >>, train_digit |-> << >>]

-----------------------------------------------------------------------------
(* the loss functions called on arbitrary HyperCubes *)

\* largest batch size (rows of a prediction) the loss functions are called on
MaxRows == 2

\* largest number of backward calls on one loss HyperCube
MaxBackward == 2

\* (N, 1) for every batch size, and one shape with two columns
Shapes == { << n, 1 >> : n \in 1..MaxRows } \cup { << 1, 2 >> }

\* 1e-13
Tiny == Fin(1, 10, -1)

\* inside [0, 1] (saturated, nearly saturated, interior) and outside
PredVals == { Zero, Tiny, Q(1, 2), One, Q(5, 4), Q(-1, 4) }

TargetVals == { Zero, One }

SeedVals == { Q(-1, 1), Q(2, 1) }

StartGrads == { Zero, One }

\* a seed of shape (k,): v, 2v, ...
SeedTensor(k, v) == Tensor(1, << [j \in 1..k |-> Mul(v, Q(j, 1))] >>)

TensorsOf(shape, vals) == { Tensor(2, d) : d \in [1..shape[1] -> [1..shape[2] -> vals]] }

Filled(t, c) == TScale(c, ones_like(t))

\* ids of the prediction and the target the loss is called on
PredId == 1

TargetId == 2

InitLoss ==
    /\ \E shape \in Shapes :
       \E x \in TensorsOf(shape, PredVals), y \in TensorsOf(shape, TargetVals) :
       \E g \in StartGrads :
          heap = << [HyperCube(x, NoGradFn) EXCEPT !.grad = Filled(x, g)],
                    [HyperCube(y, NoGradFn) EXCEPT !.grad = Filled(y, g)] >>
    /\ pc = "start"
    /\ loss = 0
    /\ loss_func = "none"
    /\ seeds = << >>
    /\ heap0 = << >>
    /\ data = NoData
    /\ params = << >>
    /\ lr = Zero
    /\ epoch = 0
    /\ frame = NoFrame
    /\ plot_data = << >>
    /\ ops = << >>
    /\ reached = << >>
    /\ self = NoSelf

CallLossMSE ==
    /\ pc = "start"
    /\ heap' = LossMSE_call(heap, PredId, TargetId)
    /\ heap0' = heap'
    /\ loss' = Len(heap')
    /\ loss_func' = "LossMSE"
    /\ pc' = "called"
    /\ UNCHANGED << seeds, trainVars, self >>

CallLossBCE ==
    /\ pc = "start"
    /\ loss_func' = "LossBCE"
    /\ IF LossBCEAssert(heap[PredId].value)
       THEN /\ heap' = LossBCE_call(heap, PredId, TargetId)
            /\ heap0' = heap'
            /\ loss' = Len(heap')
            /\ pc' = "called"
       ELSE /\ pc' = "AssertionError"
            /\ UNCHANGED << heap, heap0, loss >>
    /\ UNCHANGED << seeds, trainVars, self >>

\* loss.backward(g) with a seed of the loss value's shape
LossBackward ==
    /\ pc = "called"
    /\ Len(seeds) < MaxBackward
    /\ \E g \in { SeedTensor(NCols(heap[loss].value), v) : v \in SeedVals } :
          /\ heap' = HyperCube_backward(heap, loss, g)
          /\ seeds' = Append(seeds, g)
    /\ UNCHANGED << pc, loss, loss_func, heap0, trainVars, self >>

NextLoss == CallLossMSE \/ CallLossBCE \/ LossBackward

SpecLoss == InitLoss /\ [][NextLoss]_vars

-----------------------------------------------------------------------------
(* util.py: one round of run_experiment, or train_model on the caller's    *)
(* Data.  The model is one linear layer, the optimizer plain gradient      *)
(* descent; make_movie is False.                                           *)

\* largest number of epochs train_model runs
MaxEpochs == 2

\* largest number of points Data.generate is asked for
MaxPoints == 1

Half == Q(1, 2)

\* evaluate_error: the share of rows where prediction and target fall on
\* different sides of 0.5
evaluate_error(pred, target) ==
    LET agree == { c \in (1..NRows(pred)) \X (1..NCols(pred)) :
                      Lt(Half, pred.data[c[1]][c[2]]) = Lt(Half, target.data[c[1]][c[2]]) }
    IN  Sub(One, Div(Q(Cardinality(agree), 1), Q(NRows(pred), 1)))

\* 1 / (2 * math.pi), to six decimals
InvTwoPi == Q(159155, 1000000)

\* the target column of generate_disc_set for the (nb, 2) tensor input_
DiscTarget(input_) ==
    Tensor(2, [i \in 1..NRows(input_) |->
                 << IF Lt(Add(Mul(Sub(input_.data[i][1], Half), Sub(input_.data[i][1], Half)),
                              Mul(Sub(input_.data[i][2], Half), Sub(input_.data[i][2], Half))),
                          InvTwoPi)
                    THEN One ELSE Zero >>])

\* sum of the first n elements of t in row-major order
RECURSIVE SumFirst(_, _)
SumFirst(t, n) ==
    IF n = 0 THEN Zero
    ELSE Add(SumFirst(t, n - 1),
             t.data[((n - 1) \div NCols(t)) + 1][((n - 1) % NCols(t)) + 1])

\* Tensor.mean() over all elements
Mean(t) == Div(SumFirst(t, Numel(t)), Q(Numel(t), 1))

\* the largest k with (k/4)^2 <= n/d
RECURSIVE SqrtSearch(_, _, _)
SqrtSearch(n, d, k) ==
    IF (k + 1) * (k + 1) * d <= 16 * n THEN SqrtSearch(n, d, k + 1) ELSE k

\* square root, rounded down to a multiple of 1/4 (numbers of block 0 only)
Sqrt(a) ==
    CASE IsNaN(a) -> NaN
      [] a.k = "pinf" -> PInf
      [] a.k = "ninf" -> NaN
      [] a.n < 0 -> NaN
      [] a.n >= 0 /\ a.e = 0 -> Q(SqrtSearch(a.n, a.d, 0), 4)

\* Tensor.std() over all elements: the unbiased estimate, nan for one element
Std(t) ==
    LET m == Mean(t)
        dev == TRSub(m, t)
    IN  Sqrt(Div(SumFirst(TMul(dev, dev), Numel(t)), Q(Numel(t) - 1, 1)))

\* t.sub_(mean).div_(std)
Standardized(t, mean, std) ==
    Tensor(t.rank, [i \in 1..NRows(t) |-> [j \in 1..NCols(t) |->
                       Div(Sub(t.data[i][j], mean), std)]])

\* normalize(train_x, test_x): both values are rewritten in place with the
\* mean and std of the training values
normalize(h, train_x, test_x) ==
    LET mean == Mean(h[train_x].value)
        std == Std(h[train_x].value)
    IN  [h EXCEPT ![train_x].value = Standardized(@, mean, std),
                  ![test_x].value = Standardized(@, mean, std)]

\* loss_func(pred_y, true_y) may go ahead
LossAccepts(lf, h, input_) == lf = "LossMSE" \/ LossBCEAssert(h[input_].value)

\* loss_func(pred_y, true_y), when it goes ahead
LossCall(lf, h, input_, target) ==
    IF lf = "LossMSE" THEN LossMSE_call(h, input_, target) ELSE LossBCE_call(h, input_, target)

\* optimizer.zero_grad(): the grad of every parameter becomes zero
zero_grad(h, ps) ==
    [id \in 1..Len(h) |->
        IF \E k \in 1..Len(ps) : ps[k] = id
        THEN [h[id] EXCEPT !.grad = ZerosLike(@)] ELSE h[id]]

\* optimizer.step(): value -= lr * grad for every parameter
step(h, ps, rate) ==
    [id \in 1..Len(h) |->
        IF \E k \in 1..Len(ps) : ps[k] = id
        THEN [h[id] EXCEPT !.value = TSub(@, TScale(rate, h[id].grad))] ELSE h[id]]

\* mutant: the loop body with step() ahead of backward()
TrainBody_StepFirst ==
    << "zero_grad", "forward_train", "evaluate_train", "forward_test", "evaluate_test",
       "record", "step", "backward" >>

\* mutant: the test pass and the recording moved behind step()
TrainBody_TestAfterStep ==
    << "zero_grad", "forward_train", "evaluate_train", "backward", "step",
       "forward_test", "evaluate_test", "record" >>

\* mutant: the loop body without zero_grad()
TrainBody_NoZeroGrad ==
    << "forward_train", "evaluate_train", "forward_test", "evaluate_test",
       "record", "backward", "step" >>

\* the statements of the loop body of train_model, in program order
TrainBody ==
    << "zero_grad", "forward_train", "evaluate_train", "forward_test", "evaluate_test",
       "record", "backward", "step" >>

\* where control goes after statement stmt of iteration e of range(epoch)
AfterStatement(stmt, e, n) ==
    LET i == CHOOSE k \in 1..Len(TrainBody) : TrainBody[k] = stmt
    IN  IF i < Len(TrainBody) THEN TrainBody[i + 1]
        ELSE IF e + 1 < n THEN TrainBody[1] ELSE "done"

\* the loop variable e after statement stmt of iteration e
EpochAfter(stmt, e, n) ==
    IF stmt = TrainBody[Len(TrainBody)] /\ e + 1 < n THEN e + 1 ELSE e

\* mutant: backward() is called on the test loss
BackwardRoot_Test(f) == f.cost_test

\* the HyperCube train_model calls backward() on
BackwardRoot(f) == f.cost_train

CoordVals == { Zero, Half }

WeightVals == { Half, One }

LearningRates == { Half, One }

LossFunctions == { "LossMSE", "LossBCE" }

TrainXVals == { Zero, One, Q(2, 1) }

BatchSizes == { 1, 2 }

Leaf(value) == HyperCube(value, NoGradFn)

\* run_experiment before Data.generate
InitRound ==
    /\ heap = << >>
    /\ pc = "generate"
    /\ data = NoData
    /\ params = << >>

\* train_model called with a Data object and a model of the caller
InitCaller ==
    /\ \E n \in BatchSizes :
       \E x \in TensorsOf(<< n, 1 >>, TrainXVals), y \in TensorsOf(<< n, 1 >>, TargetVals) :
       \E ty \in TargetVals, w \in WeightVals :
          heap = << Leaf(x), Leaf(y), Leaf(Tensor(2, << << One >> >>)),
                    Leaf(Tensor(2, << << ty >> >>)),
                    Leaf(Tensor(2, << << w >> >>)), Leaf(Tensor(1, << << Zero >> >>)) >>
    /\ pc = TrainBody[1]
    /\ data = [train_x |-> 1, train_y |-> 2, test_x |-> 3, test_y |-> 4]
    /\ params = << 5, 6 >>

InitTrain ==
    /\ InitRound \/ InitCaller
    /\ loss_func \in LossFunctions
    /\ lr \in LearningRates
    /\ epoch = MaxEpochs
    /\ frame = NoFrame
    /\ plot_data = << >>
    /\ ops = << >>
    /\ reached = << >>
    /\ loss = 0
    /\ seeds = << >>
    /\ heap0 = << >>
    /\ self = NoSelf

\* Data.generate up to the call of normalize: two generate_disc_set calls
DataGenerate ==
    /\ pc = "generate"
    /\ \E n \in 1..MaxPoints :
       \E train_input \in TensorsOf(<< n, 2 >>, CoordVals) :
       \E a \in CoordVals, b \in CoordVals :
          LET test_input == Tensor(2, [i \in 1..n |-> << a, b >>])
          IN  heap' = << Leaf(train_input), Leaf(DiscTarget(train_input)),
                         Leaf(test_input), Leaf(DiscTarget(test_input)) >>
    /\ pc' = "normalize"
    /\ UNCHANGED << self, loss_func, lossVars, trainVars >>

\* Data.generate from the call of normalize on
Normalize ==
    /\ pc = "normalize"
    /\ heap' = normalize(heap, 1, 3)
    /\ data' = [train_x |-> 1, train_y |-> 2, test_x |-> 3, test_y |-> 4]
    /\ pc' = "build"
    /\ UNCHANGED << self, loss_func, lossVars, params, lr, epoch, frame, plot_data, ops, reached >>

\* build_model() and build_optimizer(model.param())
BuildModel ==
    /\ pc = "build"
    /\ \E w1 \in WeightVals, w2 \in WeightVals :
          heap' = heap \o << Leaf(Tensor(2, << << w1 >>, << w2 >> >>)),
                              Leaf(Tensor(1, << << Zero >> >>)) >>
    /\ params' = << Len(heap) + 1, Len(heap) + 2 >>
    /\ pc' = IF epoch > 0 THEN TrainBody[1] ELSE "done"
    /\ UNCHANGED << self, loss_func, lossVars, data, lr, epoch, frame, plot_data, ops, reached >>

\* the control part of every statement of the loop body
Advance(stmt) ==
    /\ pc = stmt
    /\ pc' = AfterStatement(stmt, frame.e, epoch)

ZeroGrad ==
    /\ Advance("zero_grad")
    /\ heap' = zero_grad(heap, params)
    /\ ops' = Append(ops, "zero_grad")
    /\ frame' = [frame EXCEPT !.e = EpochAfter("zero_grad", @, epoch)]
    /\ UNCHANGED << self, loss_func, lossVars, data, params, lr, epoch, plot_data, reached >>

ForwardTrain ==
    /\ Advance("forward_train")
    /\ heap' = Linear_forward(heap, params[1], params[2], data.train_x)
    /\ frame' = [frame EXCEPT !.y_train = Len(heap'),
                              !.e = EpochAfter("forward_train", @, epoch)]
    /\ ops' = Append(ops, "forward")
    /\ UNCHANGED << self, loss_func, lossVars, data, params, lr, epoch, plot_data, reached >>

\* evaluate_model(y_train, data.train_y, loss_func)
EvaluateTrain ==
    /\ pc = "evaluate_train"
    /\ IF LossAccepts(loss_func, heap, frame.y_train)
       THEN /\ heap' = LossCall(loss_func, heap, frame.y_train, data.train_y)
            /\ frame' = [frame EXCEPT
                            !.e = EpochAfter("evaluate_train", @, epoch),
                            !.cost_train = Len(heap'),
                            !.error_train = evaluate_error(heap[frame.y_train].value,
                                                           heap[data.train_y].value)]
            /\ ops' = Append(ops, "loss")
            /\ pc' = AfterStatement("evaluate_train", frame.e, epoch)
       ELSE /\ pc' = "AssertionError"
            /\ UNCHANGED << heap, frame, ops >>
    /\ UNCHANGED << self, loss_func, lossVars, data, params, lr, epoch, plot_data, reached >>

ForwardTest ==
    /\ Advance("forward_test")
    /\ heap' = Linear_forward(heap, params[1], params[2], data.test_x)
    /\ frame' = [frame EXCEPT !.y_test = Len(heap'),
                              !.e = EpochAfter("forward_test", @, epoch)]
    /\ ops' = Append(ops, "forward")
    /\ UNCHANGED << self, loss_func, lossVars, data, params, lr, epoch, plot_data, reached >>

\* evaluate_model(y_test, data.test_y, loss_func)
EvaluateTest ==
    /\ pc = "evaluate_test"
    /\ IF LossAccepts(loss_func, heap, frame.y_test)
       THEN /\ heap' = LossCall(loss_func, heap, frame.y_test, data.test_y)
            /\ frame' = [frame EXCEPT
                            !.e = EpochAfter("evaluate_test", @, epoch),
                            !.cost_test = Len(heap'),
                            !.error_test = evaluate_error(heap[frame.y_test].value,
                                                          heap[data.test_y].value)]
            /\ ops' = Append(ops, "loss")
            /\ pc' = AfterStatement("evaluate_test", frame.e, epoch)
       ELSE /\ pc' = "AssertionError"
            /\ UNCHANGED << heap, frame, ops >>
    /\ UNCHANGED << self, loss_func, lossVars, data, params, lr, epoch, plot_data, reached >>

\* plot_data[e, :] = error_train, error_test, cost_train.value, cost_test.value
Record ==
    /\ Advance("record")
    /\ plot_data' = Append(plot_data,
                           << frame.error_train, frame.error_test,
                              heap[frame.cost_train].value.data[1][1],
                              heap[frame.cost_test].value.data[1][1] >>)
    /\ frame' = [frame EXCEPT !.e = EpochAfter("record", @, epoch)]
    /\ UNCHANGED << self, heap, loss_func, lossVars, data, params, lr, epoch, ops, reached >>

\* cost_train.backward(), seeded with ones
Backward ==
    /\ Advance("backward")
    /\ heap' = HyperCube_backward(heap, BackwardRoot(frame),
                                  ones_like(heap[BackwardRoot(frame)].value))
    /\ reached' = Append(reached, Reached(heap, BackwardRoot(frame)))
    /\ ops' = Append(ops, "backward")
    /\ frame' = [frame EXCEPT !.e = EpochAfter("backward", @, epoch)]
    /\ UNCHANGED << self, loss_func, lossVars, data, params, lr, epoch, plot_data >>

\* optimizer.step()
Step ==
    /\ Advance("step")
    /\ heap' = step(heap, params, lr)
    /\ ops' = Append(ops, "step")
    /\ frame' = [frame EXCEPT !.e = EpochAfter("step", @, epoch)]
    /\ UNCHANGED << self, loss_func, lossVars, data, params, lr, epoch, plot_data, reached >>

NextTrain ==
    \/ DataGenerate \/ Normalize \/ BuildModel
    \/ ZeroGrad \/ ForwardTrain \/ EvaluateTrain \/ ForwardTest \/ EvaluateTest
    \/ Record \/ Backward \/ Step

SpecTrain == InitTrain /\ [][NextTrain]_vars

-----------------------------------------------------------------------------
(* train_model for one epoch on a single point, with a linear layer of one *)
(* weight and one bias and LossMSE                                         *)

BiasVals == { Zero, Half }

StepRates == { Q(1, 10), Half, One }

InitStep ==
    /\ \E x \in TrainXVals, y \in TargetVals, ty \in TargetVals :
       \E w \in WeightVals, b \in BiasVals :
          heap = << Leaf(Tensor(2, << << x >> >>)), Leaf(Tensor(2, << << y >> >>)),
                    Leaf(Tensor(2, << << One >> >>)), Leaf(Tensor(2, << << ty >> >>)),
                    Leaf(Tensor(2, << << w >> >>)), Leaf(Tensor(1, << << b >> >>)) >>
    /\ pc = TrainBody[1]
    /\ data = [train_x |-> 1, train_y |-> 2, test_x |-> 3, test_y |-> 4]
    /\ params = << 5, 6 >>
    /\ loss_func = "LossMSE"
    /\ lr \in StepRates
    /\ epoch = 1
    /\ frame = NoFrame
    /\ plot_data = << >>
    /\ ops = << >>
    /\ reached = << >>
    /\ loss = 0
    /\ seeds = << >>
    /\ heap0 = << >>
    /\ self = NoSelf

NextStep ==
    \/ ZeroGrad \/ ForwardTrain \/ EvaluateTrain \/ ForwardTest \/ EvaluateTest
    \/ Record \/ Backward \/ Step

SpecStep == InitStep /\ [][NextStep]_vars

-----------------------------------------------------------------------------
(* properties of the loss functions, checked under SpecLoss *)

Elem(t, i, j) == t.data[i][j]

Cells(t) == (1..NRows(t)) \X (1..NCols(t))

IsFinT(t) == \A c \in Cells(t) : IsFin(Elem(t, c[1], c[2]))

\* the grad of every HyperCube of heap h
GradsOf(h) == [id \in 1..Len(h) |-> h[id].grad]

TwoBackwardCalls == pc = "called" /\ Len(seeds) = 2

\* some element of the prediction is exactly 0 or exactly 1
Saturated == \E c \in Cells(heap[PredId].value) :
                 Elem(heap[PredId].value, c[1], c[2]) \in { Zero, One }

\* C1 as stated: backward(g1) then backward(g2) on the loss HyperCube leaves
\* every HyperCube with the grad a single backward(g1 + g2) gives from the
\* same starting grads
C1_AccumulationAnyInput ==
    TwoBackwardCalls =>
        GradsOf(heap) = GradsOf(HyperCube_backward(heap0, loss, TAdd(seeds[1], seeds[2])))

\* C1 amended: the accumulation law holds for LossMSE, and for LossBCE when
\* no element of the prediction is exactly 0 or 1 (there the gradient
\* handed to the target is infinite, and inf - inf is nan)
C1_Accumulation ==
    (TwoBackwardCalls /\ (loss_func = "LossMSE" \/ ~Saturated)) =>
        GradsOf(heap) = GradsOf(HyperCube_backward(heap0, loss, TAdd(seeds[1], seeds[2])))

C1_Witness ==
    /\ TwoBackwardCalls
    /\ loss_func = "LossBCE"
    /\ ~Saturated
    /\ seeds[1] # seeds[2]
    /\ heap[PredId].grad # heap0[PredId].grad
    /\ heap[TargetId].grad # heap0[TargetId].grad

OutOfRange(t) ==
    \E c \in Cells(t) : Lt(Elem(t, c[1], c[2]), Zero) \/ Lt(One, Elem(t, c[1], c[2]))

\* C6: LossBCE on a prediction with an element below 0 or above 1 raises
\* the assertion error, returns no HyperCube and leaves every value and
\* grad as it was
C6_BCERejectsOutOfRange ==
    [][ (pc = "start" /\ loss_func' = "LossBCE" /\ OutOfRange(heap[PredId].value))
            => (pc' = "AssertionError" /\ heap' = heap /\ loss' = 0) ]_vars

C6_Witness ==
    /\ pc = "AssertionError"
    /\ loss_func = "LossBCE"
    /\ OutOfRange(heap[PredId].value)
    /\ heap[PredId].grad # ZerosLike(heap[PredId].grad)

BCECalled == loss_func = "LossBCE" /\ pc = "called"

Hundred == Q(100, 1)

\* the loss is finite, and each example contributes between 0 and 100
BCELossBounded ==
    \A j \in 1..NCols(heap[loss].value) :
        /\ IsFin(Elem(heap[loss].value, 1, j))
        /\ Le(Zero, Elem(heap[loss].value, 1, j))
        /\ Le(Elem(heap[loss].value, 1, j),
              Mul(Hundred, Q(NRows(heap[PredId].value), 1)))

\* C7 as stated: for a prediction in [0, 1] and a target in {0, 1} the BCE
\* loss is finite and bounded and backward leaves only finite gradients in
\* the prediction and in the target
C7_AllGradientsFinite ==
    BCECalled =>
        /\ BCELossBounded
        /\ IsFinT(heap[PredId].grad)
        /\ IsFinT(heap[TargetId].grad)

\* C7 amended: the loss is finite and bounded and the gradient of the
\* prediction is finite; the gradient of the target is finite when no
\* element of the prediction is exactly 0 or 1
C7_FiniteLossAndPredGrad ==
    BCECalled =>
        /\ BCELossBounded
        /\ IsFinT(heap[PredId].grad)
        /\ (~Saturated => IsFinT(heap[TargetId].grad))

C7_Witness ==
    /\ BCECalled
    /\ Len(seeds) >= 1
    /\ Elem(heap[PredId].value, 1, 1) = Zero
    /\ Elem(heap[TargetId].value, 1, 1) = One
    /\ NRows(heap[PredId].value) = 1
    /\ Elem(heap[loss].value, 1, 1) = Hundred
    /\ Elem(heap[PredId].grad, 1, 1) # Elem(heap0[PredId].grad, 1, 1)

\* max(pred * (1 - pred), eps)
BCEDenominator(x) ==
    LET p == Mul(x, Sub(One, x)) IN IF Lt(p, EpsValue) THEN EpsValue ELSE p

\* 1e12
EpsInverse == Fin(1, 1, 1)

\* C8: LossBCE's backward with seed g adds to each element of the
\* prediction's grad exactly (pred - target) * g / max(pred * (1 - pred), eps),
\* a finite number of magnitude at most |pred - target| * 1e12 * |g|
C8_BCEPredGradient ==
    [][ (BCECalled /\ seeds' # seeds) =>
            \A c \in Cells(heap[PredId].value) :
            \A g \in { Elem(seeds'[Len(seeds')], 1, c[2]) } :
            \A new \in { Elem(heap'[PredId].grad, c[1], c[2]) } :
                LET x == Elem(heap[PredId].value, c[1], c[2])
                    y == Elem(heap[TargetId].value, c[1], c[2])
                    contribution == Div(Mul(Sub(x, y), g), BCEDenominator(x))
                IN  /\ new = Add(Elem(heap[PredId].grad, c[1], c[2]), contribution)
                    /\ IsFin(contribution)
                    /\ Le(AbsNum(contribution),
                          Mul(Mul(AbsNum(Sub(x, y)), EpsInverse), AbsNum(g))) ]_vars

C8_Witness ==
    /\ BCECalled
    /\ Len(seeds) = 2
    /\ Elem(heap[PredId].value, 1, 1) = One
    /\ Elem(heap[TargetId].value, 1, 1) = Zero
    /\ Elem(heap[PredId].grad, 1, 1).e = 1

MSECalled == loss_func = "LossMSE" /\ pc = "called"

\* sum over rows 1..i of (x - t)^2 in column j
RECURSIVE SumSq(_, _, _, _)
SumSq(x, t, j, i) ==
    IF i = 0 THEN Zero
    ELSE Add(SumSq(x, t, j, i - 1),
             Mul(Sub(Elem(x, i, j), Elem(t, i, j)), Sub(Elem(x, i, j), Elem(t, i, j))))

ReturnsNewHyperCube ==
    /\ Len(heap) = 3
    /\ loss = 3
    /\ heap[loss].grad_fn.args = << PredId, TargetId >>

\* C9 as stated: LossMSE returns a new HyperCube holding one number, half
\* the sum of (pred - target)^2 over the examples of the batch
C9_ScalarLoss ==
    MSECalled =>
        /\ ReturnsNewHyperCube
        /\ Numel(heap[loss].value) = 1
        /\ Mul(Q(2, 1), Elem(heap[loss].value, 1, 1))
              = SumSq(heap[PredId].value, heap[TargetId].value, 1, NRows(heap[PredId].value))

\* C9 amended: LossMSE returns a new HyperCube holding one number per
\* column of the prediction, half the sum of that column's (pred - target)^2
\* over the examples of the batch, not divided by the batch size
C9_HalfSumPerColumn ==
    MSECalled =>
        /\ ReturnsNewHyperCube
        /\ heap[loss].value.rank = 1
        /\ NRows(heap[loss].value) = 1
        /\ NCols(heap[loss].value) = NCols(heap[PredId].value)
        /\ \A j \in 1..NCols(heap[PredId].value) :
              Mul(Q(2, 1), Elem(heap[loss].value, 1, j))
                 = SumSq(heap[PredId].value, heap[TargetId].value, j,
                         NRows(heap[PredId].value))

C9_Witness ==
    /\ MSECalled
    /\ NRows(heap[PredId].value) = 2
    /\ Elem(heap[PredId].value, 1, 1) = Q(5, 4)
    /\ Elem(heap[PredId].value, 2, 1) = Q(1, 2)
    /\ Elem(heap[TargetId].value, 1, 1) = Zero
    /\ Elem(heap[TargetId].value, 2, 1) = One
    /\ Elem(heap[loss].value, 1, 1) = Q(29, 32)

\* C10: LossMSE's backward with seed g adds (pred - target) * g to the
\* prediction's grad and its negation to the target's grad
C10_MSEGradients ==
    [][ (MSECalled /\ seeds' # seeds) =>
            \A c \in Cells(heap[PredId].value) :
            \A g \in { Elem(seeds'[Len(seeds')], 1, c[2]) } :
            \A new \in { << Elem(heap'[PredId].grad, c[1], c[2]),
                            Elem(heap'[TargetId].grad, c[1], c[2]) >> } :
                LET x == Elem(heap[PredId].value, c[1], c[2])
                    y == Elem(heap[TargetId].value, c[1], c[2])
                    d == Mul(Sub(x, y), g)
                IN  /\ new[1] = Add(Elem(heap[PredId].grad, c[1], c[2]), d)
                    /\ new[2] = Add(Elem(heap[TargetId].grad, c[1], c[2]), Neg(d)) ]_vars

C10_Witness ==
    /\ MSECalled
    /\ Len(seeds) = 2
    /\ Elem(heap[PredId].value, 1, 1) = Q(5, 4)
    /\ Elem(heap[TargetId].value, 1, 1) = One
    /\ Elem(heap0[PredId].grad, 1, 1) = One
    /\ Elem(heap[PredId].grad, 1, 1) = Q(5, 4)
    /\ Elem(heap[TargetId].grad, 1, 1) = Q(3, 4)

-----------------------------------------------------------------------------
(* properties of train_model, checked under SpecTrain *)

\* the operations of one epoch in the order C2 states
EpochOps == << "zero_grad", "forward", "loss", "forward", "loss", "backward", "step" >>

\* C2: the operations train_model has executed so far are whole epochs of
\* zero_grad, forward and loss (train, test), backward, step, in this
\* order, followed by the beginning of one more such epoch
C2_OperationOrder ==
    \A i \in 1..Len(ops) : ops[i] = EpochOps[((i - 1) % Len(EpochOps)) + 1]

C2_Witness ==
    /\ pc = "done"
    /\ epoch >= 2
    /\ Len(ops) = epoch * Len(EpochOps)

ParamIds == { params[k] : k \in 1..Len(params) }

\* every grad of heap h set to zero: a heap of fresh HyperCubes
AllGradsZero(h) == [id \in 1..Len(h) |-> [h[id] EXCEPT !.grad = ZerosLike(@)]]

\* C3: when step() is about to run, every parameter holds the grad that one
\* backward pass of this epoch's training loss leaves in fresh HyperCubes
C3_NoLeakage ==
    pc = "step" =>
        \A p \in ParamIds :
            heap[p].grad =
                HyperCube_backward(AllGradsZero(heap), frame.cost_train,
                                   ones_like(heap[frame.cost_train].value))[p].grad

C3_Witness ==
    /\ pc = "step"
    /\ frame.e = 1
    /\ Len(plot_data) = 2
    /\ plot_data[1][3] # Zero
    /\ heap[params[1]].grad # ZerosLike(heap[params[1]].grad)
    /\ IsFinT(heap[params[1]].grad)

\* C4 as stated: two backward passes of train_model share no HyperCube
\* other than the parameters
C4_OnlyParametersShared ==
    \A i \in 1..Len(reached) : \A j \in 1..Len(reached) :
        i # j => (reached[i] \cap reached[j]) \subseteq ParamIds

\* C4 amended: two backward passes share only the parameters and the two
\* training HyperCubes data.train_x and data.train_y; the prediction and
\* the loss of an epoch start its backward pass with a zero grad
C4_ParametersAndTrainDataShared ==
    /\ \A i \in 1..Len(reached) : \A j \in 1..Len(reached) :
          i # j => (reached[i] \cap reached[j])
                       \subseteq (ParamIds \cup { data.train_x, data.train_y })
    /\ pc = "backward" =>
          \A id \in Reached(heap, frame.cost_train)
                       \ (ParamIds \cup { data.train_x, data.train_y }) :
              heap[id].grad = ZerosLike(heap[id].grad)

C4_Witness ==
    /\ Len(reached) = 2
    /\ data.train_y \in (reached[1] \cap reached[2])
    /\ data.train_x \in (reached[1] \cap reached[2])
    /\ frame.cost_train \in reached[2]
    /\ frame.cost_train \notin reached[1]
    /\ heap[data.train_y].grad # ZerosLike(heap[data.train_y].grad)

\* C5 as stated: the value of an existing HyperCube changes only when
\* step() updates a parameter
C5_OnlyStepChangesValues ==
    [][ \A id \in 1..Len(heap) :
            heap'[id].value # heap[id].value => (pc = "step" /\ id \in ParamIds) ]_vars

\* C5 amended: the value of an existing HyperCube changes only when step()
\* updates a parameter or normalize rescales the two input HyperCubes of the
\* data set in place
C5_OnlyStepAndNormalizeChangeValues ==
    [][ \A id \in 1..Len(heap) :
            heap'[id].value # heap[id].value =>
                \/ pc = "step" /\ id \in ParamIds
                \/ pc = "normalize" /\ id \in { 1, 3 } ]_vars

C5_Witness ==
    /\ pc = "done"
    /\ NCols(heap[data.train_x].value) = 2
    /\ heap[data.train_x].value.data[1] = << Q(-1, 1), One >>
    /\ heap[params[1]].value.data[1][1] \notin WeightVals
    /\ IsFin(heap[params[1]].value.data[1][1])

-----------------------------------------------------------------------------
(* Project_1/util.py: the Data object.  A tensor with N rows is a sequence  *)
(* of N rows; a row of train_x is a pair of images, a row of train_digit a  *)
(* pair of digits.  An image is the identity of an original image followed  *)
(* by the random affine transforms applied to it.                           *)

\* the largest number of train rows the expansions are followed to
MaxTrainRows == 4

\* the largest factor expand_train_transform is called with
MaxFactor == 2

Digits == 0..9

SmallDigits == 0..1

\* the draws of RandomAffine's parameters
TransformSeeds == { 1, 2 }

\* a bool used as a number
Bit(b) == IF b THEN 1 ELSE 0

\* t.flip(1) of one row: the two entries along dimension 1 change places
Flip1(row) == << row[2], row[1] >>

\* t.flip(1)
TFlip1(t) == [i \in 1..Len(t) |-> Flip1(t[i])]

\* self.train_digit[:, 0] == self.train_digit[:, 1]
SameDigit(train_digit) ==
    [i \in 1..Len(train_digit) |-> Bit(train_digit[i][1] = train_digit[i][2])]

\* 1 - y + same_digit, elementwise
FlippedLabels_NoSameDigit(y, same_digit) == [i \in 1..Len(y) |-> 1 - y[i]]

FlippedLabels(y, same_digit) == [i \in 1..Len(y) |-> 1 - y[i] + same_digit[i]]

\* Data.expand_train_flip
expand_train_flip(s) ==
    LET same_digit == SameDigit(s.train_digit)
    IN  [s EXCEPT !.train_x = s.train_x \o TFlip1(s.train_x),
                  !.train_y = s.train_y \o FlippedLabels(s.train_y, same_digit),
                  !.train_y_float =
                      s.train_y_float \o FlippedLabels(s.train_y_float, same_digit),
                  !.train_digit = s.train_digit \o TFlip1(s.train_digit)]

\* transform(self.train_x) for one draw k of the parameters
Transform(train_x, k) ==
    [i \in 1..Len(train_x) |-> << Append(train_x[i][1], k), Append(train_x[i][2], k) >>]

\* torch.cat of the first j entries of train_x_new
RECURSIVE CatNew(_, _, _)
CatNew(train_x, ks, j) ==
    IF j = 0 THEN << >> ELSE CatNew(train_x, ks, j - 1) \o Transform(train_x, ks[j])

\* t.repeat(factor) along the rows
RECURSIVE Repeat(_, _)
Repeat(t, factor) == IF factor <= 0 THEN << >> ELSE t \o Repeat(t, factor - 1)

\* Data.expand_train_transform(factor) past its assertion; ks are the draws
\* of the factor - 1 calls of transform
expand_train_transform(s, factor, ks) ==
    [s EXCEPT !.train_size = s.train_size * factor,
              !.train_x = s.train_x \o CatNew(s.train_x, ks, factor - 1),
              !.train_y = Repeat(s.train_y, factor),
              !.train_y_float = Repeat(s.train_y_float, factor),
              !.train_digit = Repeat(s.train_digit, factor)]

\* torch.randperm(n)
Randperm(n) == { perm \in [1..n -> 1..n] : \A i, j \in 1..n : perm[i] = perm[j] => i = j }

\* t[perm]
Index(t, perm) == [i \in 1..Len(perm) |-> t[perm[i]]]

\* Data.shuffle_train for one outcome of randperm
shuffle_train(s, perm) ==
    [s EXCEPT !.train_x = Index(s.train_x, perm),
              !.train_y = Index(s.train_y, perm),
              !.train_y_float = Index(s.train_y_float, perm),
              !.train_digit = Index(s.train_digit, perm)]

\* the Data object load_data returns for the given digits and labels
Loaded(train_digit, train_y) ==
    [train_size |-> Len(train_digit),
     train_x |-> [i \in 1..Len(train_digit) |-> << << 2 * i - 1 >>, << 2 * i >> >>],
     train_y |-> train_y,
     train_y_float |-> train_y,
     train_digit |-> train_digit]

\* the target generate_pair_sets gives a pair of digits
PairTarget(d) == Bit(d[1] <= d[2])

\* one pair of any two digits with its target, or two pairs of small digits
\* with any labels
InitData ==
    /\ \/ \E d \in Digits \X Digits : self = Loaded(<< d >>, << PairTarget(d) >>)
       \/ \E d1 \in SmallDigits \X SmallDigits, d2 \in SmallDigits \X SmallDigits :
          \E y1 \in 0..1, y2 \in 0..1 : self = Loaded(<< d1, d2 >>, << y1, y2 >>)
    /\ pc = "load_data"
    /\ heap = << >>
    /\ loss_func = "none"
    /\ loss = 0
    /\ seeds = << >>
    /\ heap0 = << >>
    /\ data = NoData
    /\ params = << >>
    /\ lr = Zero
    /\ epoch = 0
    /\ frame = NoFrame
    /\ plot_data = << >>
    /\ ops = << >>
    /\ reached = << >>

ExpandTrainFlip ==
    /\ pc # "AssertionError"
    /\ 2 * Len(self.train_x) <= MaxTrainRows
    /\ self' = expand_train_flip(self)
    /\ pc' = "expand_train_flip"
    /\ UNCHANGED << heap, loss_func, lossVars, trainVars >>

ExpandTrainTransform ==
    /\ pc # "AssertionError"
    /\ \E factor \in 0..MaxFactor :
          IF factor >= 1
          THEN /\ factor * Len(self.train_x) <= MaxTrainRows
               /\ \E ks \in [1..(factor - 1) -> TransformSeeds] :
                      self' = expand_train_transform(self, factor, ks)
               /\ pc' = "expand_train_transform"
          ELSE /\ pc' = "AssertionError"
               /\ UNCHANGED self
    /\ UNCHANGED << heap, loss_func, lossVars, trainVars >>

ShuffleTrain ==
    /\ pc # "AssertionError"
    /\ \E perm \in Randperm(Len(self.train_x)) : self' = shuffle_train(self, perm)
    /\ pc' = "shuffle_train"
    /\ UNCHANGED << heap, loss_func, lossVars, trainVars >>

NextData == ExpandTrainFlip \/ ExpandTrainTransform \/ ShuffleTrain

SpecData == InitData /\ [][NextData]_vars

-----------------------------------------------------------------------------
(* one training step of a linear layer with one weight and one bias *)

\* the single element of a one-element tensor
Scalar(t) == t.data[1][1]

\* w * x + b - y for the weight, bias, input and target held by the heap
Residual ==
    Sub(Add(Mul(Scalar(heap[params[1]].value), Scalar(heap[data.train_x].value)),
            Scalar(heap[params[2]].value)),
        Scalar(heap[data.train_y].value))

\* the state the worked example starts from: w = 1, b = 0, x = 2, y = 1, lr = 0.1
Example ==
    /\ Scalar(heap[params[1]].value) = One
    /\ Scalar(heap[params[2]].value) = Zero
    /\ Scalar(heap[data.train_x].value) = Q(2, 1)
    /\ Scalar(heap[data.train_y].value) = One
    /\ lr = Q(1, 10)

\* C11: in one training step of a one-weight linear layer under MSE the loss
\* is (w*x+b-y)^2/2, backward leaves w*x+b-y on the layer output and
\* (w*x+b-y)*x on the weight, and step makes the weight w - lr*(w*x+b-y)*x;
\* for w = 1, b = 0, x = 2, y = 1, lr = 0.1 these are 0.5, 2 and 0.8
C11_OneTrainingStep ==
    [][ /\ pc = "forward_test" =>
              /\ Scalar(heap[frame.cost_train].value) = Mul(Half, Mul(Residual, Residual))
              /\ Example => Scalar(heap[frame.cost_train].value) = Half
        /\ pc = "step" =>
              /\ Scalar(heap[frame.y_train].grad) = Residual
              /\ Scalar(heap[params[1]].grad) =
                     Mul(Residual, Scalar(heap[data.train_x].value))
              /\ Scalar(heap'[params[1]].value) =
                     Sub(Scalar(heap[params[1]].value),
                         Mul(lr, Mul(Residual, Scalar(heap[data.train_x].value))))
              /\ Example => /\ Scalar(heap[params[1]].grad) = Q(2, 1)
                            /\ Scalar(heap'[params[1]].value) = Q(4, 5) ]_vars

C11_Witness ==
    /\ pc = "done"
    /\ lr = Q(1, 10)
    /\ Scalar(heap[data.train_x].value) = Q(2, 1)
    /\ Scalar(heap[data.train_y].value) = One
    /\ Scalar(heap[params[2]].value) = Q(-1, 10)
    /\ Scalar(heap[params[1]].value) = Q(4, 5)
    /\ plot_data[1][3] = Half
    /\ Scalar(heap[frame.y_train].grad) = One
    /\ Scalar(heap[params[1]].grad) = Q(2, 1)

-----------------------------------------------------------------------------
(* the Data object of Project_1 *)

\* the four train tensors of s have the same number of rows
RowsAgree(s) ==
    /\ Len(s.train_y) = Len(s.train_x)
    /\ Len(s.train_y_float) = Len(s.train_x)
    /\ Len(s.train_digit) = Len(s.train_x)

\* C12 as stated: after any sequence of expand_train_flip,
\* expand_train_transform and shuffle_train the four train tensors have the
\* same number of rows and train_size is that number
C12_SizesAgree ==
    /\ RowsAgree(self)
    /\ self.train_size = Len(self.train_x)

\* the part of C12 the code keeps: the four train tensors have the same
\* number of rows, and train_size is that number as long as
\* expand_train_flip has not been called
C12_RowsAgree ==
    /\ RowsAgree(self)
    /\ pc = "load_data" => self.train_size = Len(self.train_x)

C12_Witness ==
    /\ pc = "expand_train_flip"
    /\ RowsAgree(self)
    /\ Len(self.train_x) = 2
    /\ self.train_size = 1

\* train_y is 1 exactly for the rows whose first digit is at most the second
Labelled(s) ==
    \A i \in 1..Len(s.train_y) :
        s.train_y[i] = (IF s.train_digit[i][1] <= s.train_digit[i][2] THEN 1 ELSE 0)

\* C13: when every row is labelled 1 exactly for first digit <= second
\* digit, expand_train_flip keeps the rows it had, adds for each of them a
\* row with the two images and the two digits swapped and the label
\* 1 - y + [digits equal], which is 0 or 1, and every row is still labelled
\* that way
C13_FlipKeepsLabelRule ==
    [][ (pc' = "expand_train_flip" /\ Labelled(self)) =>
            \A new \in { self' } :
                LET n == Len(self.train_y)
                IN  /\ Len(new.train_y) = 2 * n
                    /\ RowsAgree(new)
                    /\ Labelled(new)
                    /\ \A i \in 1..n :
                          /\ new.train_x[i] = self.train_x[i]
                          /\ new.train_digit[i] = self.train_digit[i]
                          /\ new.train_y[i] = self.train_y[i]
                          /\ new.train_x[n + i] =
                                 << self.train_x[i][2], self.train_x[i][1] >>
                          /\ new.train_digit[n + i] =
                                 << self.train_digit[i][2], self.train_digit[i][1] >>
                          /\ new.train_y[n + i] =
                                 1 - self.train_y[i]
                                 + (IF self.train_digit[i][1] = self.train_digit[i][2]
                                    THEN 1 ELSE 0)
                          /\ new.train_y[n + i] \in { 0, 1 } ]_vars

C13_Witness ==
    /\ pc = "expand_train_flip"
    /\ self.train_digit = << << 7, 7 >>, << 7, 7 >> >>
    /\ self.train_y = << 1, 1 >>
    /\ self.train_x = << << << 1 >>, << 2 >> >>, << << 2 >>, << 1 >> >> >>

-----------------------------------------------------------------------------
(* the test pass of train_model *)

\* the HyperCubes whose graph contains the test data
TestSide(h) ==
    { id \in 1..Len(h) : Reached(h, id) \cap { data.test_x, data.test_y } # {} }

\* the prediction of the model for input x, from the parameter values in h
Prediction(h, x) ==
    TAddB(MatMul(h[x].value, h[params[1]].value), h[params[2]].value)

\* the loss loss_func gives prediction pred and target HyperCube y
CostOf(h, pred, y) ==
    IF loss_func = "LossMSE" THEN LossMSEValue(pred, h[y].value).data[1][1]
    ELSE LossBCEValue(pred, h[y].value).data[1][1]

\* the row of plot_data the parameter values in h give
Metrics(h) ==
    << evaluate_error(Prediction(h, data.train_x), h[data.train_y].value),
       evaluate_error(Prediction(h, data.test_x), h[data.test_y].value),
       CostOf(h, Prediction(h, data.train_x), data.train_y),
       CostOf(h, Prediction(h, data.test_x), data.test_y) >>

\* C14: the test forward pass and the test loss evaluation leave every
\* parameter as it is, no HyperCube of the test pass ever receives a grad,
\* and when step() is about to run the parameters hold the gradient of this
\* epoch's training loss alone and the row recorded for this epoch is the
\* train and test metrics of the parameter values step() is about to change
C14_OnlyTrainingLossBackpropagated ==
    [][ /\ pc \in { "forward_test", "evaluate_test" } =>
              \A p \in ParamIds : heap'[p] = heap[p]
        /\ \A id \in TestSide(heap) : heap[id].grad = ZerosLike(heap[id].grad)
        /\ pc = "step" =>
              /\ \A fresh \in { HyperCube_backward(AllGradsZero(heap), frame.cost_train,
                                     ones_like(heap[frame.cost_train].value)) } :
                     \A p \in ParamIds : heap[p].grad = fresh[p].grad
              /\ Len(plot_data) = frame.e + 1
              /\ plot_data[frame.e + 1] = Metrics(heap) ]_vars

C14_Witness ==
    /\ pc = "step"
    /\ frame.e = 1
    /\ Len(plot_data) = 2
    /\ plot_data[2] = Metrics(heap)
    /\ plot_data[2][4] # Zero
    /\ plot_data[2] # plot_data[1]
    /\ heap[frame.cost_test].grad = ZerosLike(heap[frame.cost_test].grad)
    /\ heap[frame.y_test].grad = ZerosLike(heap[frame.y_test].grad)
    /\ heap[params[1]].grad # ZerosLike(heap[params[1]].grad)

====
